---- MODULE Spec2Model ----
(***************************************************************************)
(* Arbitrage search of solana_dex_arb: the bounded depth-first search of   *)
(* build_arbitrage_graph (src/arb.rs) over a pool registry, and the three  *)
(* quote engines it calls through the PoolMints trait (Raydium AMM v4,     *)
(* Raydium CLMM, Meteora DLMM).                                            *)
(*                                                                         *)
(* Amounts are u64 in the program.  TLC integers are 32 bit, so the pool   *)
(* table and the start amounts keep every product far below 2^31; on these *)
(* values no u64/u128 operation of the quotes wraps.  The f64 arithmetic   *)
(* of the CLMM and DLMM quotes is modelled with exact rationals <<n, d>>;  *)
(* the pool table uses prices that are powers of two and decimals that     *)
(* differ by at most one, for which the truncated f64 results are the      *)
(* truncated exact results on every amount the model reaches.              *)
(***************************************************************************)
EXTENDS Integers, Sequences, FiniteSets, TLC

VARIABLES
    pools_map,     \* registry: mint -> sequence of pool pubkeys (HashMap<Pubkey, Vec<Arc<dyn PoolMints>>>)
    start_mint,    \* argument of build_arbitrage_graph
    start_amount,  \* argument of build_arbitrage_graph
    reserves,      \* ledger: pool pubkey -> <<base vault amount, quote vault amount>> (read live over RPC)
    vault_fetch,   \* ledger: pool pubkey -> what get_account gives for the pool's vaults
    stack,         \* dfs activation records, innermost last
    pc,            \* position of the innermost dfs activation
    retval,        \* value a dfs activation is returning
    current_path,  \* Vec of pool pubkeys on the path
    used_pools,    \* HashSet of pool pubkeys on the path
    result,        \* Vec of recorded chains
    relog,         \* locals of the logging loop that recomputes a recorded chain
    status,        \* build_arbitrage_graph: "running", "returned", "failed", "panicked"
    ret,           \* what build_arbitrage_graph returned
    hops,          \* history: per pool of current_path, the hop taken at discovery
                   \* and the place of the pool in the bucket it was taken from
    found,         \* history: per recorded chain, its hops at discovery
    finals,        \* history: per recorded chain, chain_amount at the end of the logging loop
    last,          \* history: the last loop iteration or quote call
    config,        \* Config.pools: sequence of [mint, raydium_amm, raydium_clmm]
    accounts,      \* ledger: address -> the account that get_account gives for it
    build_pc,      \* build_pools_hashmap: position in its two loops
    pools_for_mint,\* build_pools_hashmap: Vec of the pools created for the current entry
    created        \* history: the calls of create, with what each returned

vars == <<pools_map, start_mint, start_amount, reserves, vault_fetch, stack, pc, retval,
          current_path, used_pools, result, relog, status, ret, hops, found, finals, last,
          config, accounts, build_pc, pools_for_mint, created>>

-----------------------------------------------------------------------------
(* Bounds of the model *)

MaxStartAmount == 2
MaxQuoteAmount == 3

(* Program constants *)

max_depth == 4
BpsDenominator == 10000

-----------------------------------------------------------------------------
(* Results of amount_out: Result<u64, Box<dyn Error>>, or a panic *)

Ok(v) == [tag |-> "Ok", amount |-> v, err |-> "none"]

Err(e) == [tag |-> "Err", amount |-> 0, err |-> e]

Panic(m) == [tag |-> "Panic", amount |-> 0, err |-> m]

-----------------------------------------------------------------------------
(* f64 values as exact rationals <<numerator, denominator>>, denominator > 0 *)

Gcd[a \in Nat, b \in Nat] == IF b = 0 THEN a ELSE Gcd[b, a % b]

Rat == Int \X Int

Norm[r \in Rat] ==
    LET g == Gcd[IF r[1] < 0 THEN -r[1] ELSE r[1], r[2]]
    IN  IF g = 0 THEN <<0, 1>> ELSE <<r[1] \div g, r[2] \div g>>

RatMul[x \in Rat, y \in Rat] == Norm[<<x[1] * y[1], x[2] * y[2]>>]

RatDiv[x \in Rat, y \in Rat] == Norm[<<x[1] * y[2], x[2] * y[1]>>]

RatInt(n) == <<n, 1>>

\* f64::powi: a negative exponent gives the reciprocal
Powi[x \in Rat, n \in Int] ==
    IF n >= 0 THEN <<x[1] ^ n, x[2] ^ n>> ELSE RatDiv[<<1, 1>>, <<x[1] ^ (-n), x[2] ^ (-n)>>]

\* `x as u64` of a non-negative f64: truncation toward zero
AsU64(x) == x[1] \div x[2]

-----------------------------------------------------------------------------
(* The pools.  A pool is identified by its pubkey. *)

Mints == {"S", "A", "B"}

UnrelatedMint == "X"

NoPool ==
    [kind |-> "none", mint_a |-> "S", mint_b |-> "S",
     swap_fee_numerator |-> 0, swap_fee_denominator |-> 1,
     liquidity |-> 0, sqrt_price_q2 |-> 0, decimals_a |-> 0, decimals_b |-> 0,
     fee_rate_bps |-> 0, active_id |-> 0, bin_step |-> 0]

Amm(a, b, num, den) ==
    [NoPool EXCEPT !.kind = "amm", !.mint_a = a, !.mint_b = b,
                   !.swap_fee_numerator = num, !.swap_fee_denominator = den]

\* sqrt_price_q2 is sqrt_price_x64 / 2^62: the Q64.64 square-root price in quarters
Clmm(a, b, liq, sq, da, db, fee) ==
    [NoPool EXCEPT !.kind = "clmm", !.mint_a = a, !.mint_b = b, !.liquidity = liq,
                   !.sqrt_price_q2 = sq, !.decimals_a = da, !.decimals_b = db,
                   !.fee_rate_bps = fee]

Dlmm(a, b, id, step, da, db, fee) ==
    [NoPool EXCEPT !.kind = "dlmm", !.mint_a = a, !.mint_b = b, !.active_id = id,
                   !.bin_step = step, !.decimals_a = da, !.decimals_b = db,
                   !.fee_rate_bps = fee]

PoolTable ==
    <<Amm("S", "A", 25, 10000),
      Amm("A", "B", 25, 10000),
      Clmm("B", "S", 1000, 4, 6, 6, 0),
      Dlmm("A", "S", 1, 10000, 6, 6, 0),
      Clmm("A", "B", 1000, 2, 9, 8, 25),
      Dlmm("A", "B", 0, 10000, 6, 6, 0),
      Amm("S", "B", 25, 0),
      Clmm("S", "A", 0, 4, 6, 6, 25)>>

Pubkeys == DOMAIN PoolTable

Pool(pk) == PoolTable[pk]

\* the amounts held by the vaults of the constant-product pools when the search
\* starts, and after a trade that somebody else makes on the pool
InitialReserves ==
    [pk \in Pubkeys |->
        IF pk = 1 THEN <<10, 40>>
        ELSE IF pk = 2 THEN <<20, 20>>
        ELSE IF pk = 7 THEN <<10, 10>>
        ELSE <<0, 0>>]

TradedReserves ==
    [pk \in Pubkeys |->
        IF pk = 1 THEN <<40, 10>>
        ELSE IF pk = 2 THEN <<0, 40>>
        ELSE IF pk = 7 THEN <<10, 40>>
        ELSE <<0, 0>>]

\* amounts that any constant-product pool may come to hold: large ones, whose
\* product does not fit 64 bits, and a drained base vault
ReferenceReserves == <<1000000, 2000000>>

DrainedReserves == <<0, 10>>

\* the amounts a quote is asked for
QuoteAmounts == 0..MaxQuoteAmount \cup {10000}

RpcOutcomes == {"ok", "fail", "short"}

InitialFetch == [pk \in Pubkeys |-> "ok"]

-----------------------------------------------------------------------------
(* Raydium AMM v4 quote: src/dex/raydium/amm.rs *)

CheckedFloorDiv(x, rhs) ==
    IF rhs = 0 THEN <<FALSE, 0>> ELSE <<TRUE, x \div rhs>>

\* Option<u128>: <<TRUE, q>> is Some(q), <<FALSE, 0>> is None
CheckedCeilDiv(x, rhs) ==
    IF rhs = 0
    THEN <<FALSE, 0>>
    ELSE LET quotient == x \div rhs
             remainder == x % rhs
         IN  <<TRUE, IF remainder # 0 THEN quotient + 1 ELSE quotient>>

SaturatingSub(a, b) == IF a >= b THEN a - b ELSE 0

\* u128 arithmetic: <<quotient, remainder>> of a * b divided by c, computed by
\* doubling so that no intermediate value leaves the range of the model's integers
Double[qr \in Nat \X Nat, c \in Nat] ==
    <<(2 * qr[1]) + ((2 * qr[2]) \div c), (2 * qr[2]) % c>>

AddOnce[qr \in Nat \X Nat, a \in Nat, c \in Nat] ==
    <<qr[1] + (a \div c) + ((qr[2] + (a % c)) \div c), (qr[2] + (a % c)) % c>>

MulDiv[a \in Nat, b \in Nat, c \in Nat] ==
    IF b = 0 THEN <<0, 0>>
    ELSE IF b % 2 = 0 THEN Double[MulDiv[a, b \div 2, c], c]
    ELSE AddOnce[Double[MulDiv[a, b \div 2, c], c], a, c]

AmmSwapOutCeil(reserve_in, reserve_out, amount_in_after_fee) ==
    reserve_out
        - (MulDiv[reserve_in, reserve_out, reserve_in + amount_in_after_fee][1]
            + IF MulDiv[reserve_in, reserve_out, reserve_in + amount_in_after_fee][2] # 0
              THEN 1 ELSE 0)

\* the constant-product output, computed after the reserves are known to be non-zero
AmmSwapOut(reserve_in, reserve_out, amount_in_after_fee) ==
    reserve_out - MulDiv[reserve_in, reserve_out, reserve_in + amount_in_after_fee][1]

\* lines 227-234, when the fee is Some
AmountInAfterFee(p, amount_in) ==
    SaturatingSub(amount_in,
                  CheckedCeilDiv(amount_in * p.swap_fee_numerator, p.swap_fee_denominator)[2])

\* rpc is what the two get_account calls of this quote give: "ok", "fail" (an
\* RPC error) or "short" (a vault account with fewer than 72 bytes of data);
\* res is the pair of vault amounts on the ledger at the time of the call
AmmAmountOut(p, res, rpc, amount_in, token_in) ==
    IF amount_in = 0 THEN Ok(0)
    ELSE IF rpc = "fail" THEN Err("QuoteUnavailable")
    ELSE IF rpc = "short" THEN Panic("read_spl_amount: range end index 72 out of range")
    ELSE
      LET base_raw == res[1]
          quote_raw == res[2]
          swap_fee == CheckedCeilDiv(amount_in * p.swap_fee_numerator, p.swap_fee_denominator)
      IN  IF ~swap_fee[1] THEN Panic("called Option::unwrap() on a None value")
          ELSE
            LET amount_in_after_fee == AmountInAfterFee(p, amount_in)
            IN  IF token_in # p.mint_a /\ token_in # p.mint_b
                THEN Err("InvalidAsset")
                ELSE
                  LET reserve_in == IF token_in = p.mint_a THEN base_raw ELSE quote_raw
                      reserve_out == IF token_in = p.mint_a THEN quote_raw ELSE base_raw
                  IN  IF reserve_in = 0 \/ reserve_out = 0
                      THEN Ok(0)
                      ELSE Ok(AmmSwapOut(reserve_in, reserve_out, amount_in_after_fee))

-----------------------------------------------------------------------------
(* Raydium CLMM quote: src/dex/raydium/clmm.rs *)

\* amount_in * (10_000 - fee_bps) / 10_000; the pool table keeps fee_bps <= 10_000
AfterFeeBps(amount_in, fee_bps) ==
    (amount_in * (BpsDenominator - fee_bps)) \div BpsDenominator

Pow10(n) == Powi[<<10, 1>>, n]

ClmmAmountOut(p, amount_in, token_in) ==
    IF amount_in = 0 \/ p.liquidity = 0 THEN Err("AmountZeroOrNoLiquidity")
    ELSE
      LET amount_in_after_fee == AfterFeeBps(amount_in, p.fee_rate_bps)
          sqrt_p == Norm[<<p.sqrt_price_q2, 4>>]
      IN  IF sqrt_p[1] = 0 THEN Err("SqrtPriceZero")
          ELSE
            LET price == RatMul[RatMul[sqrt_p, sqrt_p], Pow10(p.decimals_a - p.decimals_b)]
                amount_in_f == RatInt(amount_in_after_fee)
            IN  IF price[1] = 0 THEN Err("PriceZero")
                ELSE IF token_in # p.mint_a /\ token_in # p.mint_b
                THEN Err("InvalidAsset")
                ELSE
                  LET amount_out_f ==
                        IF token_in = p.mint_a
                        THEN RatMul[RatMul[amount_in_f, price],
                                    Pow10(p.decimals_b - p.decimals_a)]
                        ELSE RatMul[RatDiv[amount_in_f, price],
                                    Pow10(p.decimals_a - p.decimals_b)]
                  IN  IF amount_out_f[1] <= 0
                      THEN Err("NonPositiveOutput")
                      ELSE Ok(AsU64(amount_out_f))

-----------------------------------------------------------------------------
(* Meteora DLMM quote: src/dex/meteora/dlmm.rs *)

DlmmAmountOut(p, amount_in, token_in) ==
    IF amount_in = 0 THEN Ok(0)
    ELSE
      LET amount_in_after_fee == AfterFeeBps(amount_in, p.fee_rate_bps)
          bin_step_f == Norm[<<p.bin_step, 10000>>]
          price_ratio == Powi[Norm[<<bin_step_f[2] + bin_step_f[1], bin_step_f[2]>>],
                              p.active_id]
          amount_in_f == RatInt(amount_in_after_fee)
      IN  IF price_ratio[1] = 0 THEN Err("PriceZero")
          ELSE
            LET amount_out_f ==
                  IF token_in = p.mint_a
                  THEN RatMul[RatMul[amount_in_f, price_ratio],
                              Pow10(p.decimals_b - p.decimals_a)]
                  ELSE RatMul[RatDiv[amount_in_f, price_ratio],
                              Pow10(p.decimals_a - p.decimals_b)]
            IN  IF amount_out_f[1] <= 0
                THEN Err("NonPositiveOutput")
                ELSE Ok(AsU64(amount_out_f))

-----------------------------------------------------------------------------
(* PoolMints::amount_out, dispatched on the pool's type *)

AmountOut(pk, res, rpc, amount_in, token_in) ==
    LET p == Pool(pk)
    IN  IF p.kind = "amm" THEN AmmAmountOut(p, res, rpc, amount_in, token_in)
        ELSE IF p.kind = "clmm" THEN ClmmAmountOut(p, amount_in, token_in)
        ELSE DlmmAmountOut(p, amount_in, token_in)

-----------------------------------------------------------------------------
(* Account decoders: RaydiumAmmPoolInfo::create, RaydiumClmmPoolInfo::create *)
(* and MeteoraDlmmPoolInfo::create.  An account is what get_account gives    *)
(* for an address: not served (an RPC error), or data of some length.  The   *)
(* content of a pool account that is long enough is the pool of PoolTable.   *)

Account(served, len) == [served |-> served, len |-> len]

NotServed == Account(FALSE, 0)

BASE_VAULT_OFFSET == 336
QUOTE_VAULT_OFFSET == 368
BASE_MINT_OFFSET == 400
QUOTE_MINT_OFFSET == 432
FEES_OFFSET == 128

\* the ends of the ranges that create and read_fees slice out of account.data
AmmReads ==
    {BASE_VAULT_OFFSET + 32, QUOTE_VAULT_OFFSET + 32, BASE_MINT_OFFSET + 32,
     QUOTE_MINT_OFFSET + 32, FEES_OFFSET + 56 + 8}

AMM_CONFIG_OFFSET == 9
MINT_A_OFFSET == 73
MINT_B_OFFSET == 105
VAULT_A_OFFSET == 137
VAULT_B_OFFSET == 169
TICK_SPACING_OFFSET == 235
LIQUIDITY_OFFSET == 237
SQRT_PRICE_X64_OFFSET == 253
TICK_CURRENT_OFFSET == 269

ClmmReads ==
    {AMM_CONFIG_OFFSET + 32, MINT_A_OFFSET + 32, MINT_B_OFFSET + 32, VAULT_A_OFFSET + 32,
     VAULT_B_OFFSET + 32, TICK_SPACING_OFFSET + 2, LIQUIDITY_OFFSET + 16,
     SQRT_PRICE_X64_OFFSET + 16, TICK_CURRENT_OFFSET + 4}

\* read_clmm_fee_rate_bps reads a u32 at this offset of the fee config account
TRADE_FEE_RATE_OFFSET == 47

\* size_of::<LbPair>() of the #[repr(C)] struct
LbPairSize == 896

\* read_mint_decimals indexes acc.data[44]
MintDecimalsOffset == 44

\* a slice data[a..end] or an index data[end - 1] panics when the data is shorter
OutOfRange(acct, ends) == \E end \in ends : acct.len < end

Created == Ok(0)

\* both mint accounts are fetched, then read_mint_decimals indexes each
ReadMintDecimals(mint_a_acc, mint_b_acc) ==
    IF ~mint_a_acc.served \/ ~mint_b_acc.served THEN Err("AccountFetch")
    ELSE IF OutOfRange(mint_a_acc, {MintDecimalsOffset + 1})
            \/ OutOfRange(mint_b_acc, {MintDecimalsOffset + 1})
    THEN Panic("index out of bounds")
    ELSE Created

AmmCreate(acct) ==
    IF ~acct.served THEN Err("AccountFetch")
    ELSE IF OutOfRange(acct, AmmReads) THEN Panic("range end index out of range")
    ELSE Created

\* the fee config account is fetched last; a short one gives the fallback fee
ClmmCreate(acct, mint_a_acc, mint_b_acc, config_acct) ==
    IF ~acct.served THEN Err("AccountFetch")
    ELSE IF OutOfRange(acct, ClmmReads) THEN Panic("range end index out of range")
    ELSE IF ReadMintDecimals(mint_a_acc, mint_b_acc) # Created
    THEN ReadMintDecimals(mint_a_acc, mint_b_acc)
    ELSE IF ~config_acct.served THEN Err("AccountFetch")
    ELSE Created

\* read_clmm_fee_rate_bps: trade_fee_rate is the u32 held at TRADE_FEE_RATE_OFFSET
\* when the account is long enough; `as u16` keeps the low 16 bits
ReadClmmFeeRateBps(config_acct, trade_fee_rate) ==
    IF ~config_acct.served THEN Err("AccountFetch")
    ELSE IF config_acct.len >= TRADE_FEE_RATE_OFFSET + 4
    THEN Ok((trade_fee_rate \div 100) % (2 ^ 16))
    ELSE Ok(25)

DlmmLoadChecked(acct) ==
    IF acct.len < 8 + LbPairSize THEN Err("Invalid data length for DlmmInfo") ELSE Created

DlmmCreate(acct, mint_a_acc, mint_b_acc) ==
    IF ~acct.served THEN Err("AccountFetch")
    ELSE IF DlmmLoadChecked(acct) # Created THEN DlmmLoadChecked(acct)
    ELSE ReadMintDecimals(mint_a_acc, mint_b_acc)

\* the length of data that a decoder reads
LayoutLen(decoder) ==
    IF decoder = "amm" THEN QUOTE_MINT_OFFSET + 32
    ELSE IF decoder = "clmm" THEN TICK_CURRENT_OFFSET + 4
    ELSE 8 + LbPairSize

Create(decoder, acct, mint_a_acc, mint_b_acc, config_acct) ==
    IF decoder = "amm" THEN AmmCreate(acct)
    ELSE IF decoder = "clmm" THEN ClmmCreate(acct, mint_a_acc, mint_b_acc, config_acct)
    ELSE DlmmCreate(acct, mint_a_acc, mint_b_acc)

Creation(pk, decoder, acct, mint_a_acc, mint_b_acc, config_acct) ==
    [pool |-> pk, decoder |-> decoder, account |-> acct, mint_a_account |-> mint_a_acc,
     mint_b_account |-> mint_b_acc, config_account |-> config_acct,
     outcome |-> Create(decoder, acct, mint_a_acc, mint_b_acc, config_acct)]

-----------------------------------------------------------------------------
(* The registries a search is run on.  build_arbitrage_graph takes any       *)
(* HashMap from mints to pool lists; the model runs it on every registry     *)
(* that lists a subset of the pool table, in one of two iteration orders and *)
(* one of four ways of filing a pool under mints.                            *)

Ascending == [i \in 1..Len(PoolTable) |-> i]

Descending == [i \in 1..Len(PoolTable) |-> Len(PoolTable) + 1 - i]

Orders == {Ascending, Descending}

\* "a": under mint_a only; "both": under both mints; "every": under every mint,
\* also those the pool does not trade; "twice": under both mints, listed twice
Filings == {"a", "both", "every", "twice"}

Filed(pk, m, filing) ==
    IF filing = "a" THEN m = Pool(pk).mint_a
    ELSE IF filing = "every" THEN TRUE
    ELSE m \in {Pool(pk).mint_a, Pool(pk).mint_b}

Bucket(order, subset, m, filing) ==
    LET once == SelectSeq(order, LAMBDA pk : pk \in subset /\ Filed(pk, m, filing))
    IN  IF filing = "twice" THEN once \o once ELSE once

Registry(order, subset, filing) ==
    [m \in {k \in Mints : Bucket(order, subset, k, filing) # <<>>} |->
        Bucket(order, subset, m, filing)]

\* every registry of at most two pools
SmallRegistries ==
    {Registry(order, subset, filing) :
        order \in Orders,
        subset \in {s \in SUBSET Pubkeys : Cardinality(s) <= 2},
        filing \in Filings}

\* larger registries: a path of five pools, chains of two, three and four pools,
\* and the registries that file six pools under both of their mints
LargeRegistries ==
    {("S" :> <<1>>) @@ ("A" :> <<2, 6>>) @@ ("B" :> <<5, 3>>),
     ("S" :> <<1>>) @@ ("A" :> <<2, 4>>) @@ ("B" :> <<5>>),
     ("S" :> <<3, 1>>) @@ ("A" :> <<4, 8, 2>>) @@ ("B" :> <<6, 7, 5>>),
     Registry(Ascending, {1, 2, 3, 4, 5, 6}, "both"),
     Registry(Descending, {1, 2, 3, 4, 5, 6}, "both")}

Registries == SmallRegistries \cup LargeRegistries

-----------------------------------------------------------------------------
(* dfs of build_arbitrage_graph: src/arb.rs *)

FrameFromSecond(mint, amount, depth) ==
    [current_mint |-> mint, current_amount |-> amount, depth |-> depth, i |-> 2]

\* an activation of dfs: its arguments and the place of `for pool in pools`
\* (line 65), which starts with the first pool of the bucket
Frame(mint, amount, depth) ==
    [current_mint |-> mint, current_amount |-> amount, depth |-> depth, i |-> 1]

Top == stack[Len(stack)]

Front(s) == SubSeq(s, 1, Len(s) - 1)

NoRelog == [idx |-> 0, chain_amount |-> 0, current_token |-> "none"]

NoQuote == [tag |-> "None", amount |-> 0, err |-> "none"]

NoEvent ==
    [op |-> "none", kind |-> "none", pool |-> 0, token_in |-> "none", token_out |-> "none",
     amount_in |-> 0, quote |-> NoQuote, recorded |-> FALSE, failed_before |-> {}]

Event(op, kind, pk, dir, amount_in, q, recorded) ==
    [op |-> op, kind |-> kind, pool |-> pk, token_in |-> dir.token_in,
     token_out |-> dir.token_out, amount_in |-> amount_in, quote |-> q,
     recorded |-> recorded, failed_before |-> {}]

\* the pools whose quote has failed on a fetch, up to and including event e of
\* the search
Unavailable(e) ==
    e.failed_before \cup (IF e.quote = Err("QuoteUnavailable") THEN {e.pool} ELSE {})

DepthReachedLate(depth, limit) == depth > limit

\* line 54
DepthReached(depth, limit) == depth >= limit

PoolUsedNever(used, pool_pubkey) == FALSE

\* line 69
PoolUsed(used, pool_pubkey) == pool_pubkey \in used

SwapDirectionUnswapped(p, current) ==
    IF p.mint_a = current \/ p.mint_b = current
    THEN [ok |-> TRUE, token_in |-> p.mint_a, token_out |-> p.mint_b]
    ELSE [ok |-> FALSE, token_in |-> "none", token_out |-> "none"]

\* lines 74-80 and 113-121: the side of the pool that is the current mint goes in
SwapDirection(p, current) ==
    IF p.mint_a = current
    THEN [ok |-> TRUE, token_in |-> p.mint_a, token_out |-> p.mint_b]
    ELSE IF p.mint_b = current
    THEN [ok |-> TRUE, token_in |-> p.mint_b, token_out |-> p.mint_a]
    ELSE [ok |-> FALSE, token_in |-> "none", token_out |-> "none"]

QuoteDispositionTakesZero(q) ==
    IF q.tag = "Panic" THEN "panic"
    ELSE IF q.tag = "Err" THEN "skip"
    ELSE "take"

\* lines 83-90: what the loop does with the result of amount_out
QuoteDisposition(q) ==
    IF q.tag = "Panic" THEN "panic"
    ELSE IF q.tag = "Err" THEN "skip"
    ELSE IF q.amount = 0 THEN "skip"
    ELSE "take"

ReturnsToStartAlways(token_out, start) == TRUE

\* line 97
ReturnsToStart(token_out, start) == token_out = start

ProfitableOrEqual(amount_out, start) == amount_out >= start

\* line 98
Profitable(amount_out, start) == amount_out > start

RemoveNothing(used, pool_pubkey) == used

\* line 177
Remove(used, pool_pubkey) == used \ {pool_pubkey}

BranchOnProfit(returns, profitable) ==
    IF returns /\ profitable THEN "record" ELSE "recurse"

\* lines 97-100 and 157-173: a hop back to the start mint is recorded or not,
\* and only a hop to another mint is followed by the recursive call
Branch(returns, profitable) ==
    IF ~returns THEN "recurse"
    ELSE IF profitable THEN "record"
    ELSE "close"

PushFront(chains, chain) == <<chain>> \o chains

\* line 100: Vec::push
Push(chains, chain) == Append(chains, chain)

ledger == <<reserves, vault_fetch>>

args == <<pools_map, start_mint, start_amount>>

registry == <<config, accounts, build_pc, pools_for_mint, created>>

\* lines 54-62
DfsEnter ==
    /\ status = "running"
    /\ pc = "enter"
    /\ IF DepthReached(Top.depth, max_depth) \/ Top.current_mint \notin DOMAIN pools_map
       THEN pc' = "ret" /\ retval' = "Ok"
       ELSE pc' = "loop" /\ retval' = retval
    /\ UNCHANGED <<args, registry, ledger, stack, current_path, used_pools, result, relog, status,
                   ret, hops, found, finals, last>>

\* one iteration of `for pool in pools`, lines 65-173, up to the recursive call
\* or the logging loop; the end of the loop, line 180
DfsIterate ==
    /\ status = "running"
    /\ pc = "loop"
    /\ LET f == Top
           pools == pools_map[f.current_mint]
       IN
       IF f.i > Len(pools)
       THEN /\ pc' = "ret"
            /\ retval' = "Ok"
            /\ UNCHANGED <<stack, current_path, used_pools, result, relog, status, ret,
                           hops, found, finals, last>>
       ELSE
           \* the locals of the iteration, each bound once to its value
           \E pool_pubkey \in {pools[f.i]} :
           \E dir \in {SwapDirection(Pool(pool_pubkey), f.current_mint)} :
           \E q \in {AmountOut(pool_pubkey, reserves[pool_pubkey], vault_fetch[pool_pubkey],
                              f.current_amount, dir.token_in)} :
           \E kind \in {IF PoolUsed(used_pools, pool_pubkey) THEN "used"
                         ELSE IF ~dir.ok THEN "mismatch"
                         ELSE IF QuoteDisposition(q) # "take" THEN QuoteDisposition(q)
                         ELSE Branch(ReturnsToStart(dir.token_out, start_mint),
                                     Profitable(q.amount, start_amount))} :
           LET advanced == [stack EXCEPT ![Len(stack)].i = f.i + 1]
               hop == [pool |-> pool_pubkey, token_in |-> dir.token_in,
                       token_out |-> dir.token_out, amount_in |-> f.current_amount,
                       amount_out |-> q.amount, index |-> f.i]
               pushed == Append(current_path, pool_pubkey)
               quoted == IF kind \in {"used", "mismatch"} THEN NoQuote ELSE q
           IN
           /\ result' = IF kind = "record" THEN Push(result, pushed) ELSE result
           /\ last' = [Event("dfs", kind, pool_pubkey, dir, f.current_amount, quoted,
                             result' # result)
                          EXCEPT !.failed_before = Unavailable(last)]
           /\ retval' = retval
           /\ pc' = CASE kind = "recurse" -> "enter"
                      [] kind = "record" -> "relog"
                      [] kind = "panic" -> "none"
                      [] OTHER -> "loop"
           /\ status' = IF kind = "panic" THEN "panicked" ELSE status
           /\ stack' = CASE kind = "recurse" ->
                              Append(stack, Frame(dir.token_out, q.amount, f.depth + 1))
                         [] kind = "record" -> stack
                         [] kind = "panic" -> <<>>
                         [] OTHER -> advanced
           \* a hop that closes without a record is pushed (lines 93-94) and popped
           \* (lines 176-177) within the iteration
           /\ current_path' = IF kind \in {"recurse", "record"} THEN pushed
                              ELSE IF kind = "close" THEN Front(pushed)
                              ELSE current_path
           /\ used_pools' = IF kind \in {"recurse", "record"}
                            THEN used_pools \cup {pool_pubkey}
                            ELSE IF kind = "close"
                            THEN Remove(used_pools \cup {pool_pubkey}, pool_pubkey)
                            ELSE used_pools
           /\ hops' = IF kind \in {"recurse", "record"} THEN Append(hops, hop) ELSE hops
           /\ found' = IF kind = "record" THEN Append(found, Append(hops, hop)) ELSE found
           /\ relog' = IF kind = "record"
                       THEN [idx |-> 1, chain_amount |-> start_amount,
                             current_token |-> start_mint]
                       ELSE relog
           /\ UNCHANGED <<ret, finals>>
    /\ UNCHANGED <<args, registry, ledger>>

\* one iteration of the logging loop over the recorded chain, lines 107-152; with
\* its last iteration or its break, the summary (lines 154-156) and the
\* backtracking of the hop that closed the chain (lines 176-177)
DfsRelog ==
    /\ status = "running"
    /\ pc = "relog"
    /\ \E pool_pubkey \in {current_path[relog.idx]} :
       \E dir \in {SwapDirection(Pool(pool_pubkey), relog.current_token)} :
       \E q \in {AmountOut(pool_pubkey, reserves[pool_pubkey], vault_fetch[pool_pubkey],
                          relog.chain_amount, dir.token_in)} :
       LET   panics == dir.ok /\ q.tag = "Panic"
             broke == ~dir.ok \/ q.tag = "Err"
             chain_amount == IF broke THEN relog.chain_amount ELSE q.amount
             finished == broke \/ relog.idx = Len(current_path)
             closing == pools_map[Top.current_mint][Top.i]
         IN
         /\ last' = [Event("relog",
                           IF panics THEN "panic" ELSE IF broke THEN "break" ELSE "hop",
                           pool_pubkey, dir, relog.chain_amount,
                           IF dir.ok THEN q ELSE NoQuote, FALSE)
                       EXCEPT !.failed_before = Unavailable(last)]
         /\ IF panics
            THEN /\ status' = "panicked"
                 /\ stack' = <<>>
                 /\ pc' = "none"
                 /\ UNCHANGED <<current_path, used_pools, hops, finals, relog>>
            ELSE IF finished
            THEN /\ finals' = Append(finals, chain_amount)
                 /\ current_path' = Front(current_path)
                 /\ used_pools' = Remove(used_pools, closing)
                 /\ hops' = Front(hops)
                 /\ stack' = [stack EXCEPT ![Len(stack)].i = Top.i + 1]
                 /\ pc' = "loop"
                 /\ relog' = NoRelog
                 /\ status' = status
            ELSE /\ relog' = [idx |-> relog.idx + 1, chain_amount |-> chain_amount,
                              current_token |-> dir.token_out]
                 /\ UNCHANGED <<current_path, used_pools, hops, finals, stack, pc, status>>
    /\ UNCHANGED <<args, registry, ledger, retval, result, ret, found>>

\* a dfs activation returns: to the `?` of the recursive call (line 172) and the
\* backtracking after it (lines 176-177), or to build_arbitrage_graph (lines 196-211)
DfsReturn ==
    /\ status = "running"
    /\ pc = "ret"
    /\ LET rest == Front(stack)
       IN
       /\ stack' = IF rest # <<>> /\ retval = "Ok"
                   THEN [rest EXCEPT ![Len(rest)].i = rest[Len(rest)].i + 1]
                   ELSE rest
       /\ IF rest = <<>>
          THEN /\ status' = IF retval = "Ok" THEN "returned" ELSE "failed"
               /\ ret' = IF retval = "Ok" THEN [tag |-> "Ok", chains |-> result]
                                          ELSE [tag |-> "Err", chains |-> <<>>]
               /\ pc' = "none"
               /\ UNCHANGED <<current_path, used_pools, hops>>
          ELSE IF retval = "Ok"
          THEN LET caller == rest[Len(rest)]
                   pool_pubkey == pools_map[caller.current_mint][caller.i]
               IN  /\ current_path' = Front(current_path)
                   /\ used_pools' = Remove(used_pools, pool_pubkey)
                   /\ hops' = Front(hops)
                   /\ pc' = "loop"
                   /\ UNCHANGED <<status, ret>>
          ELSE UNCHANGED <<current_path, used_pools, hops, pc, status, ret>>
    /\ UNCHANGED <<args, registry, ledger, retval, result, relog, found, finals, last>>

\* the accounts of the pool table, each long enough for its decoder
FullAccounts ==
    [pool |-> [pk \in Pubkeys |-> Account(TRUE, LayoutLen(Pool(pk).kind))],
     mint |-> [m \in Mints |-> Account(TRUE, MintDecimalsOffset + 1)],
     amm_config |-> Account(TRUE, TRADE_FEE_RATE_OFFSET + 4)]

BuildAt(entry, at, idx) == [entry |-> entry, at |-> at, idx |-> idx]

\* build_pools_hashmap is not running
NoBuild ==
    /\ config = <<>>
    /\ accounts = FullAccounts
    /\ build_pc = BuildAt(0, "none", 0)
    /\ pools_for_mint = <<>>
    /\ created = <<>>

\* the ledger changes under the search, once: somebody trades on a
\* constant-product pool of the registry, which changes the amounts held by its
\* vaults, or the vault accounts of the pool stop being served, or are served
\* with data too short for a token account
Listed == UNION {{pools_map[m][i] : i \in 1..Len(pools_map[m])} : m \in DOMAIN pools_map}

LedgerChange ==
    /\ status \in {"running", "quoting"}
    /\ reserves = InitialReserves
    /\ vault_fetch = InitialFetch
    /\ \E pk \in Listed :
         /\ Pool(pk).kind = "amm"
         /\ \/ /\ \E res \in {TradedReserves[pk], ReferenceReserves, DrainedReserves} :
                    reserves' = [reserves EXCEPT ![pk] = res]
               /\ vault_fetch' = vault_fetch
            \/ /\ \E o \in RpcOutcomes \ {"ok"} : vault_fetch' = [vault_fetch EXCEPT ![pk] = o]
               /\ reserves' = reserves
    /\ UNCHANGED <<args, registry, stack, pc, retval, current_path, used_pools, result, relog,
                   status, ret, hops, found, finals, last>>

\* build_arbitrage_graph is called: lines 35-37 and the first call of dfs, lines 184-196
Init ==
    /\ pools_map \in Registries
    /\ start_mint = "S"
    /\ start_amount \in 0..MaxStartAmount
    /\ reserves = InitialReserves
    /\ vault_fetch = InitialFetch
    /\ stack = <<Frame(start_mint, start_amount, 0)>>
    /\ pc = "enter"
    /\ retval = "Ok"
    /\ current_path = <<>>
    /\ used_pools = {}
    /\ result = <<>>
    /\ relog = NoRelog
    /\ status = "running"
    /\ ret = [tag |-> "none", chains |-> <<>>]
    /\ hops = <<>>
    /\ found = <<>>
    /\ finals = <<>>
    /\ last = NoEvent
    /\ NoBuild

Next ==
    \/ DfsEnter
    \/ DfsIterate
    \/ DfsRelog
    \/ DfsReturn
    \/ LedgerChange

Spec == Init /\ [][Next]_vars

-----------------------------------------------------------------------------
(* The quote engines on their own: amount_out is called on any pool of the   *)
(* table with any amount up to MaxQuoteAmount and any mint, also one that no *)
(* pool trades, under every state of the ledger.                             *)

QuoteCall ==
    /\ status = "quoting"
    /\ \E pk \in Pubkeys, amount_in \in QuoteAmounts, token_in \in Mints \cup {UnrelatedMint} :
         last' = [NoEvent EXCEPT
                     !.op = "quote", !.kind = "call", !.pool = pk, !.token_in = token_in,
                     !.amount_in = amount_in,
                     !.quote = AmountOut(pk, reserves[pk], vault_fetch[pk], amount_in, token_in)]
    /\ UNCHANGED <<args, registry, ledger, stack, pc, retval, current_path, used_pools, result, relog,
                   status, ret, hops, found, finals>>

InitQuote ==
    /\ pools_map = Registry(Ascending, Pubkeys, "both")
    /\ start_mint = "S"
    /\ start_amount = 0
    /\ reserves = InitialReserves
    /\ vault_fetch = InitialFetch
    /\ stack = <<>>
    /\ pc = "none"
    /\ retval = "Ok"
    /\ current_path = <<>>
    /\ used_pools = {}
    /\ result = <<>>
    /\ relog = NoRelog
    /\ status = "quoting"
    /\ ret = [tag |-> "none", chains |-> <<>>]
    /\ hops = <<>>
    /\ found = <<>>
    /\ finals = <<>>
    /\ last = NoEvent
    /\ NoBuild

NextQuote ==
    \/ QuoteCall
    \/ LedgerChange

SpecQuote == InitQuote /\ [][NextQuote]_vars

-----------------------------------------------------------------------------
(* The decoders on their own: create is called for any pool of the table,    *)
(* with the pool account, the mint accounts and the fee config account not   *)
(* served, empty, one byte short of what the decoder reads, or long enough.  *)

AccountsOf(len) == {NotServed} \cup {Account(TRUE, n) : n \in {0, len - 1, len, len + 1}}

CreateCall ==
    /\ status = "creating"
    /\ \E pk \in Pubkeys :
       \E acct \in AccountsOf(LayoutLen(Pool(pk).kind)) \cup {Account(TRUE, BASE_MINT_OFFSET)},
          mint_a_acc \in AccountsOf(MintDecimalsOffset + 1),
          mint_b_acc \in {NotServed, Account(TRUE, 0), Account(TRUE, MintDecimalsOffset + 1)},
          config_acct \in {NotServed, Account(TRUE, 0), Account(TRUE, TRADE_FEE_RATE_OFFSET + 4)} :
            created' = <<Creation(pk, Pool(pk).kind, acct, mint_a_acc, mint_b_acc, config_acct)>>
    /\ UNCHANGED <<args, ledger, stack, pc, retval, current_path, used_pools, result, relog,
                   status, ret, hops, found, finals, last, config, accounts, build_pc,
                   pools_for_mint>>

InitCreate ==
    /\ pools_map = <<>>
    /\ start_mint = "S"
    /\ start_amount = 0
    /\ reserves = InitialReserves
    /\ vault_fetch = InitialFetch
    /\ stack = <<>>
    /\ pc = "none"
    /\ retval = "Ok"
    /\ current_path = <<>>
    /\ used_pools = {}
    /\ result = <<>>
    /\ relog = NoRelog
    /\ status = "creating"
    /\ ret = [tag |-> "none", chains |-> <<>>]
    /\ hops = <<>>
    /\ found = <<>>
    /\ finals = <<>>
    /\ last = NoEvent
    /\ NoBuild

NextCreate == CreateCall

SpecCreate == InitCreate /\ [][NextCreate]_vars

-----------------------------------------------------------------------------
(* read_clmm_fee_rate_bps on its own: the fee config account is not served,  *)
(* or is served with some length and some u32 in its trade_fee_rate field.   *)

TradeFeeRates == 0..120 \cup {2500, 10000, 6553599, 6553600, 6553601, 6556100, 2147483647}

FeeRateCall ==
    /\ status = "reading_fee"
    /\ \E config_acct \in AccountsOf(TRADE_FEE_RATE_OFFSET + 4), trade_fee_rate \in TradeFeeRates :
         created' = <<[account |-> config_acct, trade_fee_rate |-> trade_fee_rate,
                       outcome |-> ReadClmmFeeRateBps(config_acct, trade_fee_rate)]>>
    /\ UNCHANGED <<args, ledger, stack, pc, retval, current_path, used_pools, result, relog,
                   status, ret, hops, found, finals, last, config, accounts, build_pc,
                   pools_for_mint>>

InitFee ==
    /\ pools_map = <<>>
    /\ start_mint = "S"
    /\ start_amount = 0
    /\ reserves = InitialReserves
    /\ vault_fetch = InitialFetch
    /\ stack = <<>>
    /\ pc = "none"
    /\ retval = "Ok"
    /\ current_path = <<>>
    /\ used_pools = {}
    /\ result = <<>>
    /\ relog = NoRelog
    /\ status = "reading_fee"
    /\ ret = [tag |-> "none", chains |-> <<>>]
    /\ hops = <<>>
    /\ found = <<>>
    /\ finals = <<>>
    /\ last = NoEvent
    /\ NoBuild

NextFee == FeeRateCall

SpecFee == InitFee /\ [][NextFee]_vars

-----------------------------------------------------------------------------
(* The two ways of taking the fee off amount_in, side by side: that of the   *)
(* constant-product quote, on a pool whose Fees hold a numerator and a       *)
(* denominator, and that of the other two quotes, on a fee in basis points.  *)

\* fees as <<swap_fee_numerator, swap_fee_denominator, fee_rate_bps>>, the
\* fraction and the basis points being the same rate
SameFees ==
    {<<0, 1, 0>>, <<0, 10000, 0>>, <<25, 10000, 25>>, <<1, 400, 25>>, <<5, 2000, 25>>,
     <<30, 10000, 30>>, <<3, 1000, 30>>, <<1, 3, 3333>>, <<1, 2, 5000>>, <<9999, 10000, 9999>>,
     <<1, 1, 10000>>, <<10000, 10000, 10000>>}

\* 1/3 is not a whole number of basis points: it is left out of the fees that
\* are the same rate in both forms
ExactFees == {f \in SameFees : f[1] * 10000 = f[3] * f[2]}

FeeAmounts == 0..40 \cup {399, 400, 401, 9999, 10000, 10001, 200000}

AfterFeeCall ==
    /\ status = "charging"
    /\ \E f \in ExactFees, amount_in \in FeeAmounts :
         created' = <<[fee |-> f, amount_in |-> amount_in,
                       amm |-> AmountInAfterFee([NoPool EXCEPT !.kind = "amm",
                                                                !.swap_fee_numerator = f[1],
                                                                !.swap_fee_denominator = f[2]],
                                                amount_in),
                       bps |-> AfterFeeBps(amount_in, f[3])]>>
    /\ UNCHANGED <<args, ledger, stack, pc, retval, current_path, used_pools, result, relog,
                   status, ret, hops, found, finals, last, config, accounts, build_pc,
                   pools_for_mint>>

InitAfterFee ==
    /\ pools_map = <<>>
    /\ start_mint = "S"
    /\ start_amount = 0
    /\ reserves = InitialReserves
    /\ vault_fetch = InitialFetch
    /\ stack = <<>>
    /\ pc = "none"
    /\ retval = "Ok"
    /\ current_path = <<>>
    /\ used_pools = {}
    /\ result = <<>>
    /\ relog = NoRelog
    /\ status = "charging"
    /\ ret = [tag |-> "none", chains |-> <<>>]
    /\ hops = <<>>
    /\ found = <<>>
    /\ finals = <<>>
    /\ last = NoEvent
    /\ NoBuild

NextAfterFee == AfterFeeCall

SpecAfterFee == InitAfterFee /\ [][NextAfterFee]_vars

-----------------------------------------------------------------------------
(* DlmmInfo::calculate_bin_arrays on its own, for any pair address and any   *)
(* active_id that load_checked can have read.  A derived address is modelled *)
(* by the seeds it is derived from: the pair and the index as i64.           *)

\* i32 `/`: the quotient is rounded toward zero
DivTrunc(a, b) ==
    IF (a >= 0) = (b > 0)
    THEN (IF a >= 0 THEN a ELSE -a) \div (IF b > 0 THEN b ELSE -b)
    ELSE -((IF a >= 0 THEN a ELSE -a) \div (IF b > 0 THEN b ELSE -b))

DivEuclidTruncated(a, b) == DivTrunc(a, b)

\* i32::div_euclid: the truncated quotient, stepped away from zero when the
\* remainder is negative
DivEuclid(a, b) ==
    IF a - (b * DivTrunc(a, b)) < 0
    THEN IF b > 0 THEN DivTrunc(a, b) - 1 ELSE DivTrunc(a, b) + 1
    ELSE DivTrunc(a, b)

\* bin_id_to_bin_array_index
BinIdToBinArrayIndex(bin_id) == DivEuclid(bin_id, 100)

DeriveBinArrayPda(lb_pair, index) == [seed |-> "bin_array", lb_pair |-> lb_pair, index |-> index]

BinArrayOffsets == <<-1, 0, 1>>

CalculateBinArrays(active_id, pair_pubkey) ==
    [i \in 1..Len(BinArrayOffsets) |->
        DeriveBinArrayPda(pair_pubkey, BinIdToBinArrayIndex(active_id) + BinArrayOffsets[i])]

ActiveIds == -250..250 \cup {-2147483600, -2147483599, -2147483501, 2147483599,
                                2147483600, 2147483647}

BinArraysCall ==
    /\ status = "deriving"
    /\ \E pk \in {k \in Pubkeys : Pool(k).kind = "dlmm"}, active_id \in ActiveIds :
         created' = <<[pool |-> pk, active_id |-> active_id,
                       bin_arrays |-> CalculateBinArrays(active_id, pk)]>>
    /\ UNCHANGED <<args, ledger, stack, pc, retval, current_path, used_pools, result, relog,
                   status, ret, hops, found, finals, last, config, accounts, build_pc,
                   pools_for_mint>>

InitBins ==
    /\ pools_map = <<>>
    /\ start_mint = "S"
    /\ start_amount = 0
    /\ reserves = InitialReserves
    /\ vault_fetch = InitialFetch
    /\ stack = <<>>
    /\ pc = "none"
    /\ retval = "Ok"
    /\ current_path = <<>>
    /\ used_pools = {}
    /\ result = <<>>
    /\ relog = NoRelog
    /\ status = "deriving"
    /\ ret = [tag |-> "none", chains |-> <<>>]
    /\ hops = <<>>
    /\ found = <<>>
    /\ finals = <<>>
    /\ last = NoEvent
    /\ NoBuild

NextBins == BinArraysCall

SpecBins == InitBins /\ [][NextBins]_vars

-----------------------------------------------------------------------------
(* Config::build_pools_hashmap, one action per step of its loops.  A config  *)
(* is a sequence of entries [mint, raydium_amm, raydium_clmm]; the address 0 *)
(* and the mint "invalid" are strings that do not parse as a Pubkey.         *)

MaxEntries == 2

InvalidMint == "invalid"

InvalidAddress == 0

PoolConfig(mint, raydium_amm, raydium_clmm) ==
    [mint |-> mint, raydium_amm |-> raydium_amm, raydium_clmm |-> raydium_clmm]

PoolConfigs ==
    {PoolConfig(mint, raydium_amm, raydium_clmm) :
        mint \in {"S", "A", InvalidMint},
        raydium_amm \in {<<>>, <<1>>, <<1, 2>>, <<InvalidAddress>>},
        raydium_clmm \in {<<>>, <<3>>}}

Configs == UNION {[1..n -> PoolConfigs] : n \in 0..MaxEntries}

\* what the RPC node serves while the registry is built: every account in full,
\* or all but one, which is not served or is served one byte short
Ledgers ==
    {FullAccounts}
    \cup {[FullAccounts EXCEPT !.pool[pk] = NotServed] : pk \in {1, 2, 3}}
    \cup {[FullAccounts EXCEPT !.pool[pk] = Account(TRUE, LayoutLen(Pool(pk).kind) - 1)] :
            pk \in {1, 2, 3}}
    \cup {[FullAccounts EXCEPT !.mint[m] = acct] :
            m \in Mints, acct \in {NotServed, Account(TRUE, MintDecimalsOffset)}}
    \cup {[FullAccounts EXCEPT !.amm_config = acct] : acct \in {NotServed, Account(TRUE, 0)}}

search == <<start_mint, start_amount, ledger, stack, pc, retval, current_path, used_pools,
            result, relog, hops, found, finals, last>>

\* a `?` on Err returns it; a panic unwinds out of build_pools_hashmap
BuildLeaves(outcome) ==
    /\ status' = IF outcome.tag = "Err" THEN "build_failed" ELSE "build_panicked"
    /\ ret' = IF outcome.tag = "Err" THEN outcome ELSE ret
    /\ build_pc' = BuildAt(build_pc.entry, "done", build_pc.idx)

\* lines 40-42
BuildMint ==
    /\ status = "building"
    /\ build_pc.at = "mint"
    /\ build_pc.entry <= Len(config)
    /\ IF config[build_pc.entry].mint = InvalidMint
       THEN /\ BuildLeaves(Err("ParsePubkey"))
            /\ UNCHANGED pools_for_mint
       ELSE /\ pools_for_mint' = <<>>
            /\ build_pc' = BuildAt(build_pc.entry, "amm", 1)
            /\ UNCHANGED <<status, ret>>
    /\ UNCHANGED <<search, pools_map, config, accounts, created>>

\* the body of either inner loop: lines 46-48 and 53-55
BuildPool(decoder, addresses, after) ==
    /\ status = "building"
    /\ build_pc.at = decoder
    /\ IF build_pc.idx > Len(addresses)
       THEN /\ build_pc' = BuildAt(build_pc.entry, after, 1)
            /\ UNCHANGED <<status, ret, pools_for_mint, created>>
       ELSE \E pool_pubkey \in {addresses[build_pc.idx]} :
            IF pool_pubkey = InvalidAddress
            THEN /\ BuildLeaves(Err("ParsePubkey"))
                 /\ UNCHANGED <<pools_for_mint, created>>
            ELSE \E creation \in {Creation(pool_pubkey, decoder, accounts.pool[pool_pubkey],
                                            accounts.mint[Pool(pool_pubkey).mint_a],
                                            accounts.mint[Pool(pool_pubkey).mint_b],
                                            accounts.amm_config)} :
                 /\ created' = Append(created, creation)
                 /\ IF creation.outcome = Created
                    THEN /\ pools_for_mint' = Append(pools_for_mint, pool_pubkey)
                         /\ build_pc' = BuildAt(build_pc.entry, decoder, build_pc.idx + 1)
                         /\ UNCHANGED <<status, ret>>
                    ELSE /\ BuildLeaves(creation.outcome)
                         /\ UNCHANGED pools_for_mint
    /\ UNCHANGED <<search, pools_map, config, accounts>>

\* lines 45-49
BuildAmm == BuildPool("amm", config[build_pc.entry].raydium_amm, "clmm")

\* lines 52-56
BuildClmm == BuildPool("clmm", config[build_pc.entry].raydium_clmm, "insert")

\* HashMap::insert: the value of a key that is present is replaced
Insert(map, key, value) ==
    [k \in DOMAIN map \cup {key} |-> IF k = key THEN value ELSE map[k]]

\* lines 59-61
BuildInsert ==
    /\ status = "building"
    /\ build_pc.at = "insert"
    /\ pools_map' = IF pools_for_mint # <<>>
                    THEN Insert(pools_map, config[build_pc.entry].mint, pools_for_mint)
                    ELSE pools_map
    /\ build_pc' = BuildAt(build_pc.entry + 1, "mint", 1)
    /\ UNCHANGED <<search, status, ret, config, accounts, pools_for_mint, created>>

\* line 64
BuildReturn ==
    /\ status = "building"
    /\ build_pc.at = "mint"
    /\ build_pc.entry > Len(config)
    /\ status' = "built"
    /\ ret' = Ok(pools_map)
    /\ build_pc' = BuildAt(build_pc.entry, "done", build_pc.idx)
    /\ UNCHANGED <<search, pools_map, config, accounts, pools_for_mint, created>>

InitBuild ==
    /\ pools_map = <<>>
    /\ start_mint = "S"
    /\ start_amount = 0
    /\ reserves = InitialReserves
    /\ vault_fetch = InitialFetch
    /\ stack = <<>>
    /\ pc = "none"
    /\ retval = "Ok"
    /\ current_path = <<>>
    /\ used_pools = {}
    /\ result = <<>>
    /\ relog = NoRelog
    /\ status = "building"
    /\ ret = [tag |-> "none", chains |-> <<>>]
    /\ hops = <<>>
    /\ found = <<>>
    /\ finals = <<>>
    /\ last = NoEvent
    /\ config \in Configs
    /\ accounts \in Ledgers
    /\ build_pc = BuildAt(1, "mint", 1)
    /\ pools_for_mint = <<>>
    /\ created = <<>>

NextBuild == BuildMint \/ BuildAmm \/ BuildClmm \/ BuildInsert \/ BuildReturn

SpecBuild == InitBuild /\ [][NextBuild]_vars

\* the search is one sequential program: while it runs, its next step is taken
Search == DfsEnter \/ DfsIterate \/ DfsRelog \/ DfsReturn

FairSpec == Init /\ [][Next]_vars /\ WF_vars(Search)

-----------------------------------------------------------------------------
(* Properties *)

NoRepeat(chain) == \A i, j \in 1..Len(chain) : i # j => chain[i] # chain[j]

Returned == IF status = "returned" THEN ret.chains ELSE <<>>

Chains == {result[k] : k \in 1..Len(result)} \cup {Returned[k] : k \in 1..Len(Returned)}

MintsOf(pk) == {Pool(pk).mint_a, Pool(pk).mint_b}

\* the asset a chain of pools ends with when it is entered with `asset`: every
\* pool gives its other side
RECURSIVE AssetAfter(_, _)
AssetAfter(chain, asset) ==
    IF chain = <<>> THEN asset
    ELSE LET before == AssetAfter(Front(chain), asset)
             p == Pool(chain[Len(chain)])
         IN  IF before = p.mint_a THEN p.mint_b ELSE p.mint_a

HasDuplicate(bucket) == \E i, j \in 1..Len(bucket) : i # j /\ bucket[i] = bucket[j]

\* C1: no pool pubkey occurs twice in a chain that the search records or returns.
DistinctPools == \A chain \in Chains : NoRepeat(chain)

DistinctPoolsWitness ==
    /\ status = "returned"
    /\ \E k \in 1..Len(ret.chains) : Len(ret.chains[k]) >= 2
    /\ \E m \in DOMAIN pools_map : HasDuplicate(pools_map[m])

\* C2: every recorded or returned chain has between 1 and 4 pools, and
\* current_path never holds more than 4 pools.
ChainLength ==
    /\ \A chain \in Chains : Len(chain) >= 1 /\ Len(chain) <= 4
    /\ Len(current_path) <= 4

ChainLengthWitness ==
    /\ status = "returned"
    /\ \E k \in 1..Len(ret.chains) : Len(ret.chains[k]) = 4

\* C3: a hop that brings the path back to the start mint is recorded if and only
\* if its amount_out is strictly greater than start_amount, and nothing else is
\* recorded.
ProfitabilityGate ==
    last.op = "dfs" =>
      /\ last.quote.tag = "Ok" /\ last.token_out = start_mint
           => (last.recorded <=> last.quote.amount > start_amount)
      /\ last.recorded => last.quote.tag = "Ok" /\ last.token_out = start_mint

ProfitabilityGateWitness ==
    /\ last.op = "dfs"
    /\ last.quote.tag = "Ok"
    /\ last.token_out = start_mint
    /\ start_amount > 0
    /\ last.quote.amount = start_amount
    /\ ~last.recorded

\* C4: for every recorded chain, the amount that the recomputation of the chain
\* ends with is the amount_out of its last hop at discovery and is strictly
\* greater than start_amount.
RecomputedAmount ==
    \A k \in 1..Len(finals) :
        /\ finals[k] = found[k][Len(found[k])].amount_out
        /\ finals[k] > start_amount

\* C5: in every recorded or returned chain the first pool trades the start mint,
\* and following the chain from the start mint, each pool giving its other side,
\* ends at the start mint.
StartToStart ==
    \A chain \in Chains :
        /\ start_mint \in MintsOf(chain[1])
        /\ AssetAfter(chain, start_mint) = start_mint

StartToStartWitness ==
    /\ status = "returned"
    /\ \E k \in 1..Len(ret.chains) :
         /\ Len(ret.chains[k]) >= 3
         /\ Pool(ret.chains[k][1]).mint_b = start_mint

\* C6: in every recorded chain, the asset that a hop gives is one of the two mints
\* of the next pool and is the token_in that the next pool was quoted with.
AssetContinuity ==
    \A k \in 1..Len(found) :
        \A i \in 1..(Len(found[k]) - 1) :
            LET out == AssetAfter(SubSeq(result[k], 1, i), start_mint)
            IN  /\ out \in MintsOf(result[k][i + 1])
                /\ found[k][i].token_out = out
                /\ found[k][i + 1].token_in = out
                /\ found[k][i + 1].pool = result[k][i + 1]

AssetContinuityWitness ==
    \E k \in 1..Len(found) :
        /\ Len(found[k]) >= 3
        /\ \E i \in 2..Len(found[k]) : found[k][i].token_in = Pool(found[k][i].pool).mint_b

\* C7: build_arbitrage_graph always returns successfully with the list of
\* chains: whatever the quotes of a registry give, the search is never left
\* with an error or by an abort, no dfs activation returns Err, and what is
\* returned is Ok with the recorded chains.
SearchSucceeds ==
    /\ status \in {"running", "returned"}
    /\ retval = "Ok"
    /\ status = "returned" => ret = [tag |-> "Ok", chains |-> result]

\* C8: the search terminates: every dfs call eventually returns, so that
\* build_arbitrage_graph returns, and no dfs activation has a depth above 4.
SearchTerminates ==
    /\ <>(status = "returned")
    /\ [](\A i \in 1..Len(stack) : stack[i].depth <= max_depth)

\* C9: amount_out(0, asset_in) with asset_in one of the pool's two mints returns
\* Ok(0), for every kind of pool.
ZeroInputLaw ==
    (last.op = "quote" /\ last.amount_in = 0 /\ last.token_in \in MintsOf(last.pool))
        => last.quote = Ok(0)

\* C10: amount_out(n, asset) with n > 0 and an asset that is neither of the pool's
\* two mints fails with the invalid-asset error, for every kind of pool.
AssetMismatchLaw ==
    (last.op = "quote" /\ last.amount_in > 0 /\ last.token_in \notin MintsOf(last.pool))
        => last.quote = Err("InvalidAsset")

\* C13: every decoder returns an error, and neither a pool nor a panic, for an
\* account that is served with data shorter than the layout the decoder reads.
ShortAccountIsDecodeError ==
    \A i \in 1..Len(created) :
        (created[i].account.served /\ created[i].account.len < LayoutLen(created[i].decoder))
            => created[i].outcome.tag = "Err"

\* the pools that create has returned
Decoded == {created[i].pool : i \in {j \in 1..Len(created) : created[j].outcome = Created}}

InBucket(map, mint, pk) == mint \in DOMAIN map /\ \E i \in 1..Len(map[mint]) : map[mint][i] = pk

\* C11: in the registry that build_pools_hashmap returns, every pool that was
\* decoded is in the bucket of its mint_a and in the bucket of its mint_b.
BothBuckets ==
    status = "built"
        => \A pk \in Decoded :
              InBucket(ret.amount, Pool(pk).mint_a, pk) /\ InBucket(ret.amount, Pool(pk).mint_b, pk)

\* C12: when create does not return a pool, build_pools_hashmap has returned
\* that error and no registry, and the failed create is the last one made.
FailFast ==
    \A i \in 1..Len(created) :
        created[i].outcome # Created
            => /\ build_pc.at = "done"
               /\ status = "build_failed"
               /\ ret = created[i].outcome
               /\ i = Len(created)

\* C14: no quote aborts on arithmetic: whatever the fee fields of the pool and
\* the amount, amount_out returns an amount or returns an error (the one abort
\* set aside is the read of a vault account that is too short, which is not
\* arithmetic).
QuoteReturns ==
    last.op = "quote"
        => \/ last.quote.tag \in {"Ok", "Err"}
           \/ last.quote = Panic("read_spl_amount: range end index 72 out of range")

\* C15: on a constant-product pool with fee 25/10000 whose vaults hold
\* (1_000_000, 2_000_000), a quote of 10_000 of the asset of the first vault
\* takes 9975 after the fee and returns exactly 19_753.
ReferenceCase ==
    [][(/\ last' # last
        /\ last'.op = "quote"
        /\ Pool(last'.pool).kind = "amm"
        /\ Pool(last'.pool).swap_fee_numerator = 25
        /\ Pool(last'.pool).swap_fee_denominator = 10000
        /\ reserves[last'.pool] = <<1000000, 2000000>>
        /\ vault_fetch[last'.pool] = "ok"
        /\ last'.amount_in = 10000
        /\ last'.token_in = Pool(last'.pool).mint_a)
       => /\ AmountInAfterFee(Pool(last'.pool), last'.amount_in) = 9975
          /\ last'.quote = Ok(19753)]_vars

ReferenceCaseWitness ==
    /\ last.op = "quote"
    /\ Pool(last.pool).kind = "amm"
    /\ reserves[last.pool] = <<1000000, 2000000>>
    /\ last.amount_in = 10000
    /\ last.token_in = Pool(last.pool).mint_a
    /\ last.quote = Ok(19753)

\* C16: a constant-product quote of a positive amount of one of the pool's two
\* assets returns 0, and no error, when either vault is fetched with a zero
\* balance.
ZeroReserveQuote ==
    [][(/\ last' # last
        /\ last'.op = "quote"
        /\ Pool(last'.pool).kind = "amm"
        /\ vault_fetch[last'.pool] = "ok"
        /\ last'.amount_in > 0
        /\ last'.token_in \in MintsOf(last'.pool)
        /\ (reserves[last'.pool][1] = 0 \/ reserves[last'.pool][2] = 0))
       => last'.quote = Ok(0)]_vars

\* C18: a hop whose output is the start mint is never followed by a recursive
\* call, profitable or not: no activation of dfs below the first has the start
\* mint as its current mint, and in every recorded or returned chain the start
\* mint is reached by the last hop only.
BranchEndsAtStart ==
    /\ last.op = "dfs" /\ last.token_out = start_mint => last.kind # "recurse"
    /\ \A d \in 2..Len(stack) : stack[d].current_mint # start_mint
    /\ \A chain \in Chains :
          \A i \in 1..(Len(chain) - 1) :
              AssetAfter(SubSeq(chain, 1, i), start_mint) # start_mint

BranchEndsAtStartWitness ==
    /\ last.op = "dfs"
    /\ last.kind = "close"
    /\ last.token_out = start_mint
    /\ last.quote.tag = "Ok"
    /\ last.quote.amount > 0
    /\ Len(stack) >= 2
    /\ pc = "loop"

\* the pool that the iteration of activation d is at
PoolAt(d) == pools_map[stack[d].current_mint][stack[d].i]

\* C19: used_pools is exactly the set of the pools on current_path; while the
\* search runs, current_path is the pools that the enclosing loop iterations
\* are at and nothing else, so an iteration that has ended has left no trace;
\* and both are empty when the search has returned.
PathLocalExclusion ==
    /\ used_pools = {current_path[i] : i \in 1..Len(current_path)}
    /\ status = "running"
         => /\ Len(current_path) = IF pc = "relog" THEN Len(stack) ELSE Len(stack) - 1
            /\ \A d \in 1..Len(current_path) : current_path[d] = PoolAt(d)
    /\ status = "returned" => current_path = <<>> /\ used_pools = {}

PathLocalExclusionWitness ==
    /\ status = "returned"
    /\ current_path = <<>>
    /\ \E k1, k2 \in 1..Len(ret.chains) :
         /\ k1 < k2
         /\ \E i \in 1..Len(ret.chains[k1]), j \in 1..Len(ret.chains[k2]) :
              /\ ret.chains[k1][i] = ret.chains[k2][j]
              /\ SubSeq(ret.chains[k1], 1, i) # SubSeq(ret.chains[k2], 1, j)

\* the quote that the iteration at hand gets from its pool
QuoteAtHand ==
    LET pk == PoolAt(Len(stack))
    IN  AmountOut(pk, reserves[pk], vault_fetch[pk], Top.current_amount,
                  SwapDirection(Pool(pk), Top.current_mint).token_in)

\* C20: an iteration whose pool is quoted and whose quote is an error or is 0
\* changes neither current_path nor used_pools nor the result list, makes no
\* recursive call, and leaves the loop at the next pool of the bucket.
PrunedEdge ==
    [][(/\ status = "running"
        /\ pc = "loop"
        /\ ledger' = ledger
        /\ Top.i <= Len(pools_map[Top.current_mint])
        /\ ~PoolUsed(used_pools, PoolAt(Len(stack)))
        /\ SwapDirection(Pool(PoolAt(Len(stack))), Top.current_mint).ok
        /\ (QuoteAtHand.tag = "Err" \/ QuoteAtHand = Ok(0)))
       => /\ current_path' = current_path
          /\ used_pools' = used_pools
          /\ result' = result
          /\ status' = "running"
          /\ pc' = "loop"
          /\ stack' = [stack EXCEPT ![Len(stack)].i = Top.i + 1]]_vars

PrunedEdgeWitness ==
    /\ status = "running"
    /\ pc = "loop"
    /\ last.op = "dfs"
    /\ last.kind = "skip"
    /\ last.quote.tag = "Err"
    /\ last.amount_in > 0
    /\ Len(current_path) >= 1
    /\ Top.i <= Len(pools_map[Top.current_mint])

\* the addresses that a config entry lists, of either protocol
Configured(pool_config) ==
    {pool_config.raydium_amm[i] : i \in 1..Len(pool_config.raydium_amm)}
        \cup {pool_config.raydium_clmm[i] : i \in 1..Len(pool_config.raydium_clmm)}

\* C28: in the registry that build_pools_hashmap returns, every address that a
\* config entry lists is in the bucket of the mint of that entry, also when two
\* entries have the same mint.
NoConfiguredPoolLost ==
    status = "built"
        => \A e \in 1..Len(config) :
              \A pk \in Configured(config[e]) : InBucket(ret.amount, config[e].mint, pk)

\* C26: from a fee config account of at least 51 bytes the stored fee_rate_bps
\* is floor(trade_fee_rate / 100), whatever u32 the field holds; from a shorter
\* account it is 25.
FeeRateDecoding ==
    \A i \in 1..Len(created) :
        created[i].account.served
            => created[i].outcome =
                  IF created[i].account.len >= 51
                  THEN Ok(created[i].trade_fee_rate \div 100)
                  ELSE Ok(25)

\* C27: calculate_bin_arrays gives three addresses, derived in this order from
\* the indices floor(active_id / 100) - 1, floor(active_id / 100) and
\* floor(active_id / 100) + 1 of the pair, the floor rounding toward negative
\* infinity (100 * index <= active_id < 100 * index + 100), and each index is
\* an i32.
BinArrayIndices ==
    \A i \in 1..Len(created) :
        LET arrays == created[i].bin_arrays
        IN  /\ Len(arrays) = 3
            /\ 100 * arrays[2].index <= created[i].active_id
            /\ created[i].active_id - 100 * arrays[2].index < 100
            /\ \A k \in 1..3 :
                  /\ arrays[k].lb_pair = created[i].pool
                  /\ arrays[k].index = arrays[2].index + (k - 2)
                  /\ arrays[k].index >= -2147483647 - 1
                  /\ arrays[k].index <= 2147483647

BinArrayIndicesWitness ==
    /\ Len(created) = 1
    /\ created[1].active_id = -1
    /\ created[1].bin_arrays[1].index = -2
    /\ created[1].bin_arrays[2].index = -1
    /\ created[1].bin_arrays[3].index = 0

\* C25: for a fee that is the same rate as a fraction and in basis points, at
\* most 10000, what the constant-product quote keeps of amount_in (amount_in
\* less the fee rounded up) is what the other quotes keep (the product with
\* 10000 - fee_bps, divided by 10000 and truncated).
FeeFormulasAgree ==
    \A i \in 1..Len(created) :
        (created[i].fee[1] * 10000 = created[i].fee[3] * created[i].fee[2]
            /\ created[i].fee[3] <= 10000)
            => created[i].amm = created[i].bps

FeeFormulasAgreeWitness ==
    /\ Len(created) = 1
    /\ created[1].fee = <<1, 400, 25>>
    /\ created[1].amount_in = 399
    /\ created[1].amm = 398
    /\ created[1].bps = 398

\* the vault amounts on the side that token_in goes in, and on the other side
ReserveIn(pk, token_in) ==
    IF token_in = Pool(pk).mint_a THEN reserves[pk][1] ELSE reserves[pk][2]

ReserveOut(pk, token_in) ==
    IF token_in = Pool(pk).mint_a THEN reserves[pk][2] ELSE reserves[pk][1]

\* C24: a constant-product quote that returns an amount on non-zero reserves
\* does not decrease the product of the reserves:
\* (reserve_in + amount_in_after_fee) * (reserve_out - amount_out) is at least
\* reserve_in * reserve_out.  (Stated for reserves below 2^15, whose products
\* the integers of the model hold.)
ProductNeverDecreases ==
    [][(/\ last' # last
        /\ last'.op = "quote"
        /\ Pool(last'.pool).kind = "amm"
        /\ vault_fetch[last'.pool] = "ok"
        /\ last'.token_in \in MintsOf(last'.pool)
        /\ last'.quote.tag = "Ok"
        /\ ReserveIn(last'.pool, last'.token_in) \in 1..32767
        /\ ReserveOut(last'.pool, last'.token_in) \in 1..32767)
       => (ReserveIn(last'.pool, last'.token_in)
              + AmountInAfterFee(Pool(last'.pool), last'.amount_in))
            * (ReserveOut(last'.pool, last'.token_in) - last'.quote.amount)
          >= ReserveIn(last'.pool, last'.token_in) * ReserveOut(last'.pool, last'.token_in)]_vars

\* C23: a pool whose quote has failed on a fetch is not quoted again in the
\* same search, neither by a later iteration nor by the recomputation of a
\* recorded chain.
NoRetry ==
    (last.op \in {"dfs", "relog"} /\ last.quote # NoQuote)
        => last.pool \notin last.failed_before

\* the places, bucket by bucket, of the pools of a recorded chain: the node of
\* the chain in the tree that dfs walks
IndexPath(chain_hops) == [d \in 1..Len(chain_hops) |-> chain_hops[d].index]

\* p comes before q in pre-order: p is a proper prefix of q, or p takes an
\* earlier place than q in the first bucket where they part
PreOrderBefore(p, q) ==
    \/ Len(p) < Len(q) /\ p = SubSeq(q, 1, Len(p))
    \/ \E d \in 1..Len(p) :
         /\ d <= Len(q)
         /\ p[d] < q[d]
         /\ \A e \in 1..(d - 1) : p[e] = q[e]

\* every entry of the list is the chain of pools found at the places of its
\* discovery, and an entry precedes another exactly when its places come
\* earlier in pre-order
DiscoveryOrder ==
    /\ Len(result) = Len(found)
    /\ \A k \in 1..Len(result) :
         /\ Len(result[k]) = Len(found[k])
         /\ \A d \in 1..Len(result[k]) :
              result[k][d] = pools_map[found[k][d].token_in][found[k][d].index]
    /\ \A k, l \in 1..Len(result) :
         k # l => (k < l <=> PreOrderBefore(IndexPath(found[k]), IndexPath(found[l])))

\* C22: during a search the result list changes only by one chain appended
\* behind the entries it has, which stay as they are and where they are, and
\* its entries stand in the order of their discovery: DFS pre-order over the
\* iteration order of each bucket.
ReturnedInDiscoveryOrder ==
    [][/\ \/ result' = result
          \/ /\ Len(result') = Len(result) + 1
             /\ SubSeq(result', 1, Len(result)) = result
       /\ DiscoveryOrder'
       /\ status' = "returned" => ret'.chains = result]_vars

\* two different chains have been returned, the second found in a later
\* iteration of a bucket than the first
ReturnedInDiscoveryOrderWitness ==
    /\ status = "returned"
    /\ Len(ret.chains) >= 2
    /\ ret.chains = result
    /\ ret.chains[1] # ret.chains[2]
    /\ \E d \in 1..Len(found[1]) :
         /\ d <= Len(found[2])
         /\ found[1][d].index < found[2][d].index
         /\ \A e \in 1..(d - 1) : found[1][e].index = found[2][e].index

\* a path of pools from the start asset, the asset it has reached and the
\* amount its last hop has quoted
Start == [chain |-> <<>>, asset |-> start_mint, amount |-> start_amount]

\* the paths that go one hop further than the paths of `open` that have not come
\* back to the start asset: by a pool of the bucket of the asset reached that is
\* not on the path, trades the asset and quotes to a non-zero amount
Extended(open) ==
    UNION {
        {[chain |-> Append(o.chain, pools_map[o.asset][i]),
          asset |-> SwapDirection(Pool(pools_map[o.asset][i]), o.asset).token_out,
          amount |-> AmountOut(pools_map[o.asset][i], reserves[pools_map[o.asset][i]],
                               vault_fetch[pools_map[o.asset][i]], o.amount, o.asset).amount] :
            i \in {j \in 1..Len(pools_map[o.asset]) :
                     LET pk == pools_map[o.asset][j]
                         q == AmountOut(pk, reserves[pk], vault_fetch[pk], o.amount, o.asset)
                     IN  /\ \A d \in 1..Len(o.chain) : o.chain[d] # pk
                         /\ SwapDirection(Pool(pk), o.asset).ok
                         /\ q.tag = "Ok"
                         /\ q.amount # 0}} :
        o \in {x \in open : x.asset \in DOMAIN pools_map
                            /\ (x.chain # <<>> => x.asset # start_mint)}}

RECURSIVE PathsOf(_)
PathsOf(k) == IF k = 0 THEN {Start} ELSE Extended(PathsOf(k - 1))

\* the sequences of at most max_depth pools that the ledger makes a profitable
\* round trip from the start asset
ProfitableRoundTrips ==
    UNION {{o.chain : o \in {x \in PathsOf(k) : x.asset = start_mint /\ x.amount > start_amount}} :
           k \in 1..max_depth}

\* C21: when the search returns and the ledger has been the same throughout,
\* every sequence of at most 4 different pools that leads from bucket to bucket
\* with non-zero quotes, comes back to the start asset with its last hop only
\* and ends above start_amount is an entry of the returned list.
SearchComplete ==
    (status = "returned" /\ reserves = InitialReserves /\ vault_fetch = InitialFetch)
        => \A chain \in ProfitableRoundTrips :
              \E k \in 1..Len(ret.chains) : ret.chains[k] = chain

\* a search on an unchanged ledger has returned, and the round trips are a chain
\* of two pools, one of four pools and a third one
SearchCompleteWitness ==
    /\ status = "returned"
    /\ reserves = InitialReserves
    /\ vault_fetch = InitialFetch
    /\ Cardinality(ProfitableRoundTrips) >= 3
    /\ \E a, b \in ProfitableRoundTrips : Len(a) = 2 /\ Len(b) = max_depth

====
